---- MODULE Spec2Model ----
(***************************************************************************)
(* A model of Aramis (src/src/aramis): trigram similarity, locale parsing, *)
(* the WordMatcher comparison, the lexer's tokens and options, and the     *)
(* parser (nomination, interpretation enumeration, optimization).          *)
(*                                                                         *)
(* Texts are sequences of one-character strings.  A float is either an     *)
(* exact rational <<n, d>> (option scores, similarities: only compared)    *)
(* or a fixed-point integer with Scale units per 1.0 (rule scores, the     *)
(* objective: squared, summed and square-rooted).  Optimizer coordinates   *)
(* are integers counting 1/XUnit, so the lower bound -0.1 is -1.           *)
(***************************************************************************)
EXTENDS Integers, Sequences, FiniteSets, TLC

\* ---------------------------------------------------------------- bounds
MaxStrLen == 3      \* length of the strings compared by trigram similarity
MaxLocaleLen == 7   \* length of the strings given to Locale.parse
MaxWordLen == 2     \* length of the texts of matchers and option words
MaxStems == 2       \* stems the backend returns for one word
MaxSugs == 2        \* suggestions the backend returns for one word
MaxTokens == 2      \* tokens of a parsed utterance
MaxTextLen == 5     \* length of the texts given to Lexer.normalize
MaxExplores == 2    \* calls of explore on one token
MaxAccesses == 2    \* reads of token.options by one thread
MaxLexers == 2      \* Lexer instances constructed
MaxCalls == 3       \* calls of normalize, tokenize and explore

\* denominator of the optimizer's lower bound -0.1 (parser.py:62)
XUnit == 10
Scale == XUnit * XUnit

VARIABLES
    ta, tb, tsim, trev,                 \* trigram: a, b, a % b, b % a
    ttri,                               \* trigram: what make_trigrams(a) yields
    lstr, lres,                         \* Locale.parse: argument, outcome
    wm, wx, pyorder, weq, win,          \* WordMatcher: matcher, value, results
    lweights, hsSuggest, hsStem, tok, lread,   \* lexer: one token and its backend answers
    hsLog, nexplore,                    \* lexer: backend calls made, calls of explore
    text, ruleArgs, prules, pweights, pc, tokens, interps,
    shgo, scored, selection, match, error,     \* parser
    ntext, nonce, ntwice,               \* normalize: text, one pass, two passes
    opc, olocal, ocache, omakes, oreturned, oaccess,  \* threads reading token.options
    blex, bmade, bops, btoks, bnorm, bcalls   \* lexers and their backend handles

triVars == <<ta, tb, tsim, trev, ttri>>
locVars == <<lstr, lres>>
wmVars == <<wm, wx, pyorder, weq, win>>
lexVars == <<lweights, hsSuggest, hsStem, tok, lread, hsLog, nexplore>>
parVars == <<text, ruleArgs, prules, pweights, pc, tokens, interps,
             shgo, scored, selection, match, error>>
normVars == <<ntext, nonce, ntwice>>
thrVars == <<opc, olocal, ocache, omakes, oreturned, oaccess>>
bkVars == <<blex, bmade, bops, btoks, bnorm, bcalls>>
extVars == <<normVars, thrVars, bkVars>>
vars == <<triVars, locVars, wmVars, lexVars, parVars, extVars>>

\* the parts of the library are independent: a step of one leaves the others alone
TriOnly == UNCHANGED <<locVars, wmVars, lexVars, parVars, extVars>>
LocOnly == UNCHANGED <<triVars, wmVars, lexVars, parVars, extVars>>
WmOnly == UNCHANGED <<triVars, locVars, lexVars, parVars, extVars>>
LexOnly == UNCHANGED <<triVars, locVars, wmVars, parVars, extVars>>
ParOnly == UNCHANGED <<triVars, locVars, wmVars, lexVars, extVars>>
NormOnly == UNCHANGED <<triVars, locVars, wmVars, lexVars, parVars, thrVars, bkVars>>
ThrOnly == UNCHANGED <<triVars, locVars, wmVars, lexVars, parVars, normVars, bkVars>>
BkOnly == UNCHANGED <<triVars, locVars, wmVars, lexVars, parVars, normVars, thrVars>>

\* ------------------------------------------------------------- utilities
None == [kind |-> "None"]
Unset == [kind |-> "Unset"]
\* a Python list or tuple held where None may be held too
PyList(v) == [kind |-> "list", v |-> v]

\* every sequence over S of length at most n
SeqsUpTo(S, n) == UNION {[1..k -> S] : k \in 0..n}

\* the sequences of SeqsUpTo(S, n) without a repeated element
DistinctSeqs(S, n) ==
    {s \in SeqsUpTo(S, n) : \A i, j \in 1..Len(s) : i # j => s[i] # s[j]}

RECURSIVE SumSeq(_)
SumSeq(s) == IF s = <<>> THEN 0 ELSE Head(s) + SumSeq(Tail(s))

RECURSIVE Flatten(_)
Flatten(ss) == IF ss = <<>> THEN <<>> ELSE Head(ss) \o Flatten(Tail(ss))

\* exact rationals n / d, d > 0
Rat(n, d) == [kind |-> "Rat", n |-> n, d |-> d]
IsRat(v) == v.kind = "Rat"
RatLeq(p, q) == p.n * q.d <= q.n * p.d
RatEq(p, q) == p.n * q.d = q.n * p.d
RatLess(p, q) == p.n * q.d < q.n * p.d

\* str.lower() on the letters the model uses
LowerOf == ("A" :> "a") @@ ("B" :> "b") @@ ("F" :> "f") @@ ("R" :> "r")
LowerChar(c) == IF c \in DOMAIN LowerOf THEN LowerOf[c] ELSE c
Lower(s) == [k \in DOMAIN s |-> LowerChar(s[k])]

Range(s) == {s[k] : k \in DOMAIN s}

\* ---------------------------------------------------------------- trigram
\* the value None held by the window of make_trigrams; no text holds it
NoneChar == "None"

\* nxt() of make_trigrams returns the window with None shown as a space
Materialize(q) == [k \in 1..3 |-> IF q[k] = NoneChar THEN " " ELSE q[k]]

\* make_trigrams from window q over the rest of the iterable: one window per
\* element, and one more after the end when the last element is not None
RECURSIVE TrigramWalk(_, _)
TrigramWalk(q, rest) ==
    IF rest = <<>>
    THEN IF q[3] # NoneChar
         THEN <<Materialize(<<q[2], q[3], NoneChar>>)>>
         ELSE <<>>
    ELSE LET q2 == <<q[2], q[3], Head(rest)>>
         IN  <<Materialize(q2)>> \o TrigramWalk(q2, Tail(rest))

\* trigrams whose first window holds one pad only
MakeTrigramsOnePad(i) ==
    IF i = <<>> THEN <<>> ELSE TrigramWalk(<<NoneChar, NoneChar, Head(i)>>, Tail(i))

make_trigrams(i) == TrigramWalk(<<NoneChar, NoneChar, NoneChar>>, i)

\* Trigram.__init__
Trigram(string) == [string |-> string, trigrams |-> Range(make_trigrams(string))]

\* a wrong denominator: the overlap is not subtracted
SimilarityNoOverlap(self, other) ==
    IF Cardinality(self.trigrams) = 0 \/ Cardinality(other.trigrams) = 0
    THEN Rat(0, 1)
    ELSE Rat(Cardinality(self.trigrams \cap other.trigrams),
             Cardinality(self.trigrams) + Cardinality(other.trigrams))

\* Trigram.similarity, and __mod__ which is a shortcut to it
similarity(self, other) ==
    IF Cardinality(self.trigrams) = 0 \/ Cardinality(other.trigrams) = 0
    THEN Rat(0, 1)
    ELSE LET count == Cardinality(self.trigrams \cap other.trigrams)
             len1 == Cardinality(self.trigrams)
             len2 == Cardinality(other.trigrams)
         IN  Rat(count, len1 + len2 - count)

TriAlphabet == {"a", "b", " "}
TriStrings == SeqsUpTo(TriAlphabet, MaxStrLen)

TriIdle == ta = <<>> /\ tb = <<>> /\ tsim = Unset /\ trev = Unset /\ ttri = Unset

\* list(make_trigrams(ta)) and the set Trigram(ta) keeps of it
MakeTrigrams ==
    /\ ttri = Unset
    /\ ttri' = [kind |-> "Trigram", yielded |-> make_trigrams(ta),
                trigrams |-> Trigram(ta).trigrams]
    /\ UNCHANGED <<ta, tb, tsim, trev>>
    /\ TriOnly

\* Trigram(ta) % Trigram(tb)
ModAB ==
    /\ tsim = Unset
    /\ tsim' = similarity(Trigram(ta), Trigram(tb))
    /\ UNCHANGED <<ta, tb, trev, ttri>>
    /\ TriOnly

\* Trigram(tb) % Trigram(ta)
ModBA ==
    /\ trev = Unset
    /\ trev' = similarity(Trigram(tb), Trigram(ta))
    /\ UNCHANGED <<ta, tb, tsim, ttri>>
    /\ TriOnly

\* ----------------------------------------------------------------- locale
LocaleLetters == {"f", "R"}
LocaleAlphabet == LocaleLetters \cup {"-", "_", "1"}
LocaleStrings == SeqsUpTo(LocaleAlphabet, MaxLocaleLen)

\* s starts with l1 letters, one of - and _, then l2 letters
LocaleFits(s, l1, l2) ==
    /\ Len(s) >= l1 + 1 + l2
    /\ \A k \in 1..l1 : s[k] \in LocaleLetters
    /\ s[l1 + 1] \in {"-", "_"}
    /\ \A k \in (l1 + 2)..(l1 + 1 + l2) : s[k] \in LocaleLetters

\* the lengths {2,3} of the two groups in the order the greedy quantifiers try them
LocaleTries == <<<<3, 3>>, <<3, 2>>, <<2, 3>>, <<2, 2>>>>

\* LOCALE_RE.match(s): the pattern has no anchors and match() anchors the start only
LocaleReMatch(s) ==
    LET ok == {k \in 1..Len(LocaleTries) :
                 LocaleFits(s, LocaleTries[k][1], LocaleTries[k][2])}
    IN  IF ok = {} THEN None
        ELSE LET t == LocaleTries[CHOOSE k \in ok : \A j \in ok : k <= j]
             IN  [kind |-> "Match",
                  g1 |-> SubSeq(s, 1, t[1]),
                  g2 |-> SubSeq(s, t[1] + 2, t[1] + 1 + t[2])]

\* Locale.parse
LocaleParseOf(locale) ==
    LET m == LocaleReMatch(locale)
    IN  IF m = None
        THEN [kind |-> "ValueError"]
        ELSE [kind |-> "Locale", lang |-> Lower(m.g1), region |-> Lower(m.g2)]

LocIdle == lstr = <<>> /\ lres = Unset

LocaleParse ==
    /\ lres = Unset
    /\ lres' = LocaleParseOf(lstr)
    /\ UNCHANGED lstr
    /\ LocOnly

\* ------------------------------------------------------ rules: WordMatcher
NoMatch == [kind |-> "NoMatch"]

\* OptionWord(option, word): tok, opt, idx say which object it is (word idx of
\* option opt of token tok); otype is option.type; __post_init__ sets word_lower
OptionWord(t, o, k, word, otype) ==
    [kind |-> "OptionWord", tok |-> t, opt |-> o, idx |-> k,
     word |-> word, word_lower |-> Lower(word), otype |-> otype]

Nomination(word, rule) == [kind |-> "Nomination", word |-> word, flag |-> [rule |-> rule]]

WordMatcher(word, stem) == [kind |-> "WordMatcher", word |-> word, stem |-> stem]

PyStr(s) == [kind |-> "str", s |-> s]

\* the matcher without its test of the option's type
WordMatcherEqNoStem(self, other) ==
    LET o == IF other.kind = "Nomination" THEN other.word ELSE other
    IN  IF o.kind # "OptionWord" THEN FALSE
        ELSE IF o.word_lower # self.word THEN FALSE
        ELSE TRUE

\* WordMatcher.__eq__
WordMatcherEq(self, other) ==
    LET o == IF other.kind = "Nomination" THEN other.word ELSE other
    IN  IF o.kind # "OptionWord" THEN FALSE
        ELSE IF self.stem # (o.otype = "stem") THEN FALSE
        ELSE IF o.word_lower # self.word THEN FALSE
        ELSE TRUE

\* a.__eq__(b): "True", "False" or "NotImplemented".  The dataclasses OptionWord
\* and Nomination (eq=True) and str answer only for their own class; NoMatch has
\* object.__eq__, which answers only for the same object.
DunderEq(a, b) ==
    IF a.kind = "WordMatcher"
    THEN IF WordMatcherEq(a, b) THEN "True" ELSE "False"
    ELSE IF a.kind = b.kind /\ a.kind # "NoMatch"
         THEN IF a = b THEN "True" ELSE "False"
         ELSE "NotImplemented"

\* a == b: a.__eq__(b), then the reflected b.__eq__(a), then identity
RichCompareEq(a, b) ==
    LET r1 == DunderEq(a, b)
        r2 == DunderEq(b, a)
    IN  IF r1 # "NotImplemented" THEN r1 = "True"
        ELSE IF r2 # "NotImplemented" THEN r2 = "True"
        ELSE a.kind = b.kind /\ a = b

\* el in list: any(item is el or item == el); the operands of == are
\* (el, item) before Python 3.9 and (item, el) from 3.9 on
ListContains(list, el, order) ==
    \E k \in DOMAIN list :
        IF order = "el_first"
        THEN RichCompareEq(el, list[k])
        ELSE RichCompareEq(list[k], el)

\* -------------------------------------------------------------- normalize
\* the characters of the texts normalized here: a letter, the two
\* apostrophes, a space and a punctuation sign; over them only four of the
\* usual_typos of fr_FR can match (numbers, ellipsis, commas, parentheses,
\* t-il, initials and dates need a character that is not among them)
\* U+2019, the typographic apostrophe, and U+2026, the ellipsis
Fancy == "+"
Ellipsis == "~"
NormAlphabet == {"a", "'", Fancy, " ", "!"}
NormTexts == SeqsUpTo(NormAlphabet, MaxTextLen)

\* \w and \s on these characters, and the class [!?;~./]
IsWordChar(c) == c = "a"
IsSpace(c) == c = " "
IsPunct(c) == c \in {"!", "?", ";", Ellipsis, ".", "/"}

\* where \s* started at i ends: the first position at or after i without a space
RECURSIVE SkipSpaces(_, _)
SkipSpaces(s, i) ==
    IF i <= Len(s) /\ IsSpace(s[i]) THEN SkipSpaces(s, i + 1) ELSE i

NoReMatch == [ok |-> FALSE, end |-> 0, rep |-> <<>>]
ReMatch(end, rep) == [ok |-> TRUE, end |-> end, rep |-> rep]

\* (\w|\))\s*([!?;~./])(\s*\w)?  ->  \1 \2 \3
PunctuationAt(s, i) ==
    LET j == SkipSpaces(s, i + 1)
        k == SkipSpaces(s, j + 1)
    IN  IF (IsWordChar(s[i]) \/ s[i] = ")") /\ j <= Len(s) /\ IsPunct(s[j])
        THEN IF k <= Len(s) /\ IsWordChar(s[k])
             THEN ReMatch(k, <<s[i], " ", s[j], " ">> \o SubSeq(s, j + 1, k))
             ELSE ReMatch(j, <<s[i], " ", s[j], " ">>)
        ELSE NoReMatch

\* (\w)\s*'\s*(\w)  ->  \1+\2
ContractionAt(s, i) ==
    LET j == SkipSpaces(s, i + 1)
        k == SkipSpaces(s, j + 1)
    IN  IF /\ IsWordChar(s[i])
           /\ j <= Len(s) /\ s[j] = "'"
           /\ k <= Len(s) /\ IsWordChar(s[k])
        THEN ReMatch(k, <<s[i], Fancy, s[k]>>)
        ELSE NoReMatch

\* \s+  ->  one space
SpacesAt(s, i) ==
    IF IsSpace(s[i]) THEN ReMatch(SkipSpaces(s, i) - 1, <<" ">>) ELSE NoReMatch

\* (^\s+|\s+$)  ->  nothing
StripAt(s, i) ==
    IF ~IsSpace(s[i]) THEN NoReMatch
    ELSE IF i = 1 THEN ReMatch(SkipSpaces(s, 1) - 1, <<>>)
    ELSE IF SkipSpaces(s, i) = Len(s) + 1 THEN ReMatch(Len(s), <<>>)
    ELSE NoReMatch

\* the rules of usual_typos that can match, in list order
UsualTypos == <<"punctuation", "contraction", "spaces", "strip">>

RuleAt(rule, s, i) ==
    CASE rule = "punctuation" -> PunctuationAt(s, i)
      [] rule = "contraction" -> ContractionAt(s, i)
      [] rule = "spaces" -> SpacesAt(s, i)
      [] rule = "strip" -> StripAt(s, i)

\* rule.sub(replace, text) from position i: the leftmost match is replaced and
\* the search goes on after it, so two matches never overlap
RECURSIVE ReSubFrom(_, _, _)
ReSubFrom(rule, s, i) ==
    IF i > Len(s) THEN <<>>
    ELSE LET m == RuleAt(rule, s, i)
         IN  IF m.ok THEN m.rep \o ReSubFrom(rule, s, m.end + 1)
             ELSE <<s[i]>> \o ReSubFrom(rule, s, i + 1)

\* Lexer.normalize: every rule once, each over the output of the one before
RECURSIVE NormalizeFrom(_, _)
NormalizeFrom(r, txt) ==
    IF r > Len(UsualTypos) THEN txt
    ELSE NormalizeFrom(r + 1, ReSubFrom(UsualTypos[r], txt, 1))

Normalize(txt) == NormalizeFrom(1, txt)

NormIdle == ntext = <<>> /\ nonce = Unset /\ ntwice = Unset

\* once = lexer.normalize(text)
NormalizeOnce ==
    /\ nonce = Unset
    /\ nonce' = PyStr(Normalize(ntext))
    /\ UNCHANGED <<ntext, ntwice>>
    /\ NormOnly

\* twice = lexer.normalize(once)
NormalizeAgain ==
    /\ nonce # Unset /\ ntwice = Unset
    /\ ntwice' = PyStr(Normalize(nonce.s))
    /\ UNCHANGED <<ntext, nonce>>
    /\ NormOnly

\* ------------------------------------------- threads reading token.options
\* the threads that read the options of one token
OptThreads == {1, 2}

\* self._options: 0 is None, k > 0 is the k-th list _make_options returned
ThrIdle ==
    /\ opc = [t \in OptThreads |-> "idle"] /\ olocal = [t \in OptThreads |-> 0]
    /\ ocache = 0 /\ omakes = 0 /\ oreturned = {}
    /\ oaccess = [t \in OptThreads |-> 0]

\* if self._options is None
OptCheck ==
    \E t \in OptThreads :
        /\ opc[t] = "idle" /\ oaccess[t] < MaxAccesses
        /\ opc' = [opc EXCEPT ![t] = IF ocache = 0 THEN "make" ELSE "return"]
        /\ UNCHANGED <<olocal, ocache, omakes, oreturned, oaccess>>
        /\ ThrOnly

\* self._make_options() returns a new list
OptMake ==
    \E t \in OptThreads :
        /\ opc[t] = "make"
        /\ omakes' = omakes + 1
        /\ olocal' = [olocal EXCEPT ![t] = omakes + 1]
        /\ opc' = [opc EXCEPT ![t] = "store"]
        /\ UNCHANGED <<ocache, oreturned, oaccess>>
        /\ ThrOnly

\* self._options = the list made
OptStore ==
    \E t \in OptThreads :
        /\ opc[t] = "store"
        /\ ocache' = olocal[t]
        /\ opc' = [opc EXCEPT ![t] = "return"]
        /\ UNCHANGED <<olocal, omakes, oreturned, oaccess>>
        /\ ThrOnly

\* return self._options
OptReturn ==
    \E t \in OptThreads :
        /\ opc[t] = "return"
        /\ oreturned' = oreturned \cup {ocache}
        /\ oaccess' = [oaccess EXCEPT ![t] = oaccess[t] + 1]
        /\ opc' = [opc EXCEPT ![t] = "idle"]
        /\ UNCHANGED <<olocal, ocache, omakes>>
        /\ ThrOnly

\* no Lexer constructed, no Hunspell2 made, no suggest or stem asked
BkIdle ==
    /\ blex = <<>> /\ bmade = 0 /\ bops = 0
    /\ btoks = <<>> /\ bnorm = Unset /\ bcalls = 0

\* the parts that are not at work
ExtIdle == NormIdle /\ ThrIdle /\ BkIdle

WmLetters == {"a", "A", "b"}
WmTexts == SeqsUpTo(WmLetters, MaxWordLen) \ {<<>>}
OptionTypes == {"verbatim", "neighbor", "stem"}
WmWords == {OptionWord(1, 1, 1, w, ty) : w \in WmTexts, ty \in OptionTypes}
WmValues ==
    WmWords \cup {Nomination(w, 1) : w \in WmWords}
            \cup {NoMatch} \cup {PyStr(w) : w \in WmTexts}
WmMatchers == {WordMatcher(w, st) : w \in WmTexts, st \in BOOLEAN}

WmIdle ==
    /\ wm = WordMatcher(<<"a">>, FALSE) /\ wx = NoMatch /\ pyorder = "item_first"
    /\ weq = Unset /\ win = Unset

\* wm == wx
MatcherEq ==
    /\ weq = Unset
    /\ weq' = [kind |-> "bool", v |-> RichCompareEq(wm, wx)]
    /\ UNCHANGED <<wm, wx, pyorder, win>>
    /\ WmOnly

\* wx in [wm]
MatcherIn ==
    /\ win = Unset
    /\ win' = [kind |-> "bool", v |-> ListContains(<<wm>>, wx, pyorder)]
    /\ UNCHANGED <<wm, wx, pyorder, weq>>
    /\ WmOnly

\* ------------------------------------------------------------------ lexer
\* Weights: the class attributes
DefaultWeights == [option_verbatim |-> Rat(1, 1), option_stem |-> Rat(95, 100)]

\* str.split(" ") (BasicLang.split): cut at every single space
RECURSIVE SplitFrom(_, _)
SplitFrom(cur, rest) ==
    IF rest = <<>> THEN <<cur>>
    ELSE IF Head(rest) = " "
         THEN <<cur>> \o SplitFrom(<<>>, Tail(rest))
         ELSE SplitFrom(Append(cur, Head(rest)), Tail(rest))

Split(s) == SplitFrom(<<>>, s)

\* the characters of the class [a-z...-] of fr_FR's word_re (IGNORECASE)
WordChars ==
    {"a", "b", "c", "e", "i", "j", "l", "m", "n", "o", "r", "s", "u",
     "A", "B", "-"}

\* Token.is_word: word_re.match(word) anchors the start only and the optional
\* group may match nothing, so one character of the class is enough
IsWord(word) == Len(word) >= 1 /\ word[1] \in WordChars

\* Token.__init__
NewToken(word) == [word |-> word, neighbors |-> None, stems |-> None, options |-> None]

Neighbor(words, sim) == [words |-> words, sim |-> sim]

\* the loop of Token.explore over the suggestions
RECURSIVE ExploreNeighbors(_, _)
ExploreNeighbors(word, sugs) ==
    IF sugs = <<>> THEN <<>>
    ELSE LET sug == Head(sugs)
             rest == ExploreNeighbors(word, Tail(sugs))
         IN  IF sug = word THEN rest
             ELSE <<Neighbor(Split(sug), similarity(Trigram(word), Trigram(sug)))>>
                  \o rest

\* an explore that appends to the lists it finds
ExploreTokenAppend(t, sugs, stms) ==
    LET old(l) == IF l = None THEN <<>> ELSE l.v
    IN  IF ~IsWord(t.word)
        THEN [t EXCEPT !.neighbors = PyList(old(t.neighbors)), !.stems = PyList(old(t.stems))]
        ELSE [t EXCEPT !.neighbors = PyList(old(t.neighbors) \o ExploreNeighbors(t.word, sugs)),
                        !.stems = PyList(old(t.stems) \o stms)]

\* Token.explore, the backend answering sugs to suggest(word) and stms to stem(word)
ExploreToken(t, sugs, stms) ==
    IF ~IsWord(t.word)
    THEN [t EXCEPT !.neighbors = PyList(<<>>), !.stems = PyList(<<>>)]
    ELSE [t EXCEPT !.neighbors = PyList(ExploreNeighbors(t.word, sugs)),
                    !.stems = PyList(stms)]

\* Option(type, score, token, raw_words); the token is the one that holds it
Option(type, score, raw_words) == [type |-> type, score |-> score, words |-> raw_words]

\* Token._make_options_verbatim
MakeOptionsVerbatim(t, w) == <<Option("verbatim", w.option_verbatim, <<t.word>>)>>

\* Token._make_options_stem
MakeOptionsStem(t, w) ==
    LET stems == IF t.stems = None THEN <<>> ELSE t.stems.v
    IN  [k \in DOMAIN stems |-> Option("stem", w.option_stem, <<stems[k]>>)]

\* Token._make_options_neighbors
MakeOptionsNeighbors(t, w) ==
    LET nbs == IF t.neighbors = None THEN <<>> ELSE t.neighbors.v
    IN  [k \in DOMAIN nbs |-> Option("neighbor", nbs[k].sim, nbs[k].words)]

\* o put into a sequence sorted by score descending, before its equals
InsertBeforeEquals(sorted, o) ==
    LET n == Cardinality({k \in DOMAIN sorted : RatLess(o.score, sorted[k].score)})
    IN  SubSeq(sorted, 1, n) \o <<o>> \o SubSeq(sorted, n + 1, Len(sorted))

\* o put into a sequence sorted by score descending, after its equals:
\* sorted(..., reverse=True) is stable
InsertSorted(sorted, o) ==
    LET n == Cardinality({k \in DOMAIN sorted : RatLeq(o.score, sorted[k].score)})
    IN  SubSeq(sorted, 1, n) \o <<o>> \o SubSeq(sorted, n + 1, Len(sorted))

\* sorted(chain, key=score, reverse=True)
RECURSIVE SortedByScore(_)
SortedByScore(chain) ==
    IF chain = <<>> THEN <<>>
    ELSE InsertSorted(SortedByScore(SubSeq(chain, 1, Len(chain) - 1)),
                      chain[Len(chain)])

\* Token._make_options
MakeOptions(t, w) ==
    SortedByScore(MakeOptionsVerbatim(t, w) \o MakeOptionsStem(t, w)
                  \o MakeOptionsNeighbors(t, w))

\* Token.options: computed on the first access and kept
WithOptions(t, w) ==
    IF t.options = None THEN [t EXCEPT !.options = PyList(MakeOptions(t, w))] ELSE t

Txt_ab == <<"a", "b">>
LexWords == {Txt_ab, <<"!">>}
SugPool == {Txt_ab, <<"a", " ", "b">>, <<"a", "-", "b">>, <<"a", "b", "b">>}
StemPool == {Txt_ab, <<"a">>, <<"b">>}
LexWeightsSet ==
    {DefaultWeights,
     [option_verbatim |-> Rat(1, 1), option_stem |-> Rat(1, 1)],
     [option_verbatim |-> Rat(1, 6), option_stem |-> Rat(2, 5)]}

LexIdle ==
    /\ lweights = DefaultWeights /\ hsSuggest = <<>> /\ hsStem = <<>>
    /\ tok = NewToken(<<>>) /\ lread = Unset
    /\ hsLog = <<>> /\ nexplore = 0

\* the calls Token.explore makes to the backend for a word
BackendCalls(word) ==
    IF IsWord(word)
    THEN <<[op |-> "suggest", word |-> word], [op |-> "stem", word |-> word]>>
    ELSE <<>>

\* token.explore()
LexExplore ==
    /\ nexplore < MaxExplores
    /\ nexplore' = nexplore + 1
    /\ tok' = ExploreToken(tok, hsSuggest, hsStem)
    /\ hsLog' = hsLog \o BackendCalls(tok.word)
    /\ UNCHANGED <<lweights, hsSuggest, hsStem, lread>>
    /\ LexOnly

\* token.options
LexReadOptions ==
    /\ tok' = WithOptions(tok, lweights)
    /\ lread' = tok'.options
    /\ lread' # lread
    /\ UNCHANGED <<lweights, hsSuggest, hsStem, hsLog, nexplore>>
    /\ LexOnly

\* ------------------------------------------------- parser: the rules given
\* RuleInfo(rule, weight, name); the weight is in fixed point
RuleInfo(rule, weight, name) == [rule |-> rule, weight |-> weight, name |-> name]

\* what evaluate returns: None, or a float in fixed point
EvalNone == [none |-> TRUE, v |-> 0]
EvalFloat(v) == [none |-> FALSE, v |-> v]

Txt_aimer == <<"a", "i", "m", "e", "r">>
Txt_saucisse == <<"s", "a", "u", "c", "i", "s", "s", "e">>
Txt_aime == <<"a", "i", "m", "e">>
Txt_saucisses == <<"s", "a", "u", "c", "i", "s", "s", "e", "s">>

\* the rule instances; id tells the objects apart
SausageRule(id) == [kind |-> "SausageRule", id |-> id]
MaximizeMatch(id) == [kind |-> "MaximizeMatch", id |-> id]
MaximizeSimilarity(id) == [kind |-> "MaximizeSimilarity", id |-> id]
\* a rule of the caller's: nominates the words its matchers accept, and its
\* evaluate answers result whatever the selection
KeywordRule(id, allowed, result) ==
    [kind |-> "KeywordRule", id |-> id, allowed |-> allowed, result |-> result]

\* the rules of the parser fixture of the tests
FixtureRules ==
    <<RuleInfo(SausageRule(1), Scale, "sausage"),
      RuleInfo(MaximizeMatch(2), Scale, "max-match"),
      RuleInfo(MaximizeSimilarity(3), Scale, "max-sim")>>

RuleSets ==
    {FixtureRules,
     <<RuleInfo(MaximizeMatch(1), Scale, "max-match")>>,
     <<RuleInfo(MaximizeMatch(1), 0, "max-match")>>,
     <<RuleInfo(KeywordRule(1, <<WordMatcher(<<"a">>, FALSE)>>, EvalFloat(0)), Scale, "kw"),
       RuleInfo(MaximizeMatch(2), Scale, "max-match")>>,
     <<RuleInfo(KeywordRule(1, <<WordMatcher(Txt_aimer, TRUE)>>, EvalFloat(2 * Scale)),
                Scale, "kw")>>,
     <<RuleInfo(KeywordRule(1, <<WordMatcher(<<"a">>, FALSE), WordMatcher(<<"b">>, FALSE)>>,
                            EvalFloat(Scale \div 2)), Scale, "kw"),
       RuleInfo(MaximizeSimilarity(2), Scale \div 2, "max-sim")>>,
     <<RuleInfo(SausageRule(1), Scale, "rule"),
       RuleInfo(MaximizeMatch(2), Scale, "rule")>>}

\* a subclass of Weights that adds the attribute rule_miss_penalty
PenaltyWeights ==
    [option_verbatim |-> Rat(1, 1), option_stem |-> Rat(95, 100),
     rule_miss_penalty |-> Rat(1, 1)]

WeightsSet == {DefaultWeights, PenaltyWeights}

\* Parser.__init__: {i.name: i for i in rules}, as the sequence of the dict's
\* values: a name keeps the place of its first RuleInfo and the value of its last
RulesDict(rules) ==
    LET firsts == {k \in DOMAIN rules : \A j \in 1..(k - 1) : rules[j].name # rules[k].name}
        LastOf(k) == CHOOSE j \in DOMAIN rules :
                        /\ rules[j].name = rules[k].name
                        /\ \A i \in DOMAIN rules : rules[i].name = rules[k].name => i <= j
        RECURSIVE Build(_)
        Build(k) == IF k > Len(rules) THEN <<>>
                    ELSE (IF k \in firsts THEN <<rules[LastOf(k)]>> ELSE <<>>) \o Build(k + 1)
    IN  Build(1)

\* the answers of the spell-check backend (external) used for the parser:
\* stems of the words of the tests, and one word with a two-word suggestion
DictStem(w) ==
    IF w = Txt_aime THEN <<Txt_aimer>>
    ELSE IF w = Txt_saucisses THEN <<Txt_saucisse>>
    ELSE <<>>

DictSuggest(w) == IF w = Txt_ab THEN <<<<"a", " ", "b">>>> ELSE <<>>

Vocabulary == {Txt_aime, Txt_saucisses, Txt_ab}

\* Lexer.tokenize(text, explore=True) on the surfaces of a normalized text
Tokenize(surfaces) ==
    [k \in DOMAIN surfaces |->
        ExploreToken(NewToken(surfaces[k]), DictSuggest(surfaces[k]), DictStem(surfaces[k]))]

\* ---------------------------------------------------- parser: nomination
\* the option words of option o of token t, as OptionWord objects
OptionWordsOf(toks, t, o) ==
    LET opt == toks[t].options.v[o]
    IN  [k \in DOMAIN opt.words |-> OptionWord(t, o, k, opt.words[k], opt.type)]

\* [w for t in tokens for o in t.options for w in o.words]
AllWords(toks) ==
    Flatten([t \in DOMAIN toks |->
        Flatten([o \in DOMAIN toks[t].options.v |-> OptionWordsOf(toks, t, o)])])

\* the matchers of SausageRule.nominate_words
SausageAllowed == <<WordMatcher(Txt_aimer, TRUE), WordMatcher(Txt_saucisse, TRUE)>>

\* rule.nominate_words(words): the default of Rule yields nothing; SausageRule
\* yields a Nomination for every word its list of matchers contains (word in
\* allowed gives the same answer whichever operand order the list uses)
NominateWords(rule, words) ==
    LET allowed == IF rule.kind = "SausageRule" THEN SausageAllowed
                   ELSE IF rule.kind = "KeywordRule" THEN rule.allowed
                   ELSE <<>>
        picked == SelectSeq(words, LAMBDA w : ListContains(allowed, w, "item_first"))
    IN  [k \in DOMAIN picked |-> Nomination(picked[k], rule.id)]

\* the nominations of every rule of the dict, in the order they are appended
Emitted(rules, toks) ==
    Flatten([r \in DOMAIN rules |-> NominateWords(rules[r].rule, AllWords(toks))])

\* tokens compared by their surface
TokenEqByWord(toks, a, b) == toks[a].word = toks[b].word

\* Token.__eq__: self is other
TokenEq(toks, a, b) == a = b

\* Option(...) == Option(...) of the frozen dataclass: type, score, token, words
OptionEq(toks, a, b) ==
    LET oa == toks[a.tok].options.v[a.opt]
        ob == toks[b.tok].options.v[b.opt]
    IN  /\ oa.type = ob.type
        /\ RatEq(oa.score, ob.score)
        /\ TokenEq(toks, a.tok, b.tok)
        /\ oa.words = ob.words

\* OptionWord == OptionWord: option, word, word_lower
OptionWordEq(toks, a, b) ==
    /\ OptionEq(toks, a, b)
    /\ a.word = b.word
    /\ a.word_lower = b.word_lower

\* nominations[token][option][word] of _make_nominations: the nominations
\* appended under keys equal to these
Bucket(toks, emitted, w) ==
    SelectSeq(emitted, LAMBDA n :
        /\ TokenEq(toks, n.word.tok, w.tok)
        /\ OptionEq(toks, n.word, w)
        /\ OptionWordEq(toks, n.word, w))

\* itertools.product(*lists): the last list varies fastest
RECURSIVE Product(_)
Product(lists) ==
    IF lists = <<>> THEN <<<<>>>>
    ELSE LET h == Head(lists)
             rest == Product(Tail(lists))
         IN  Flatten([a \in DOMAIN h |-> [b \in DOMAIN rest |-> <<h[a]>> \o rest[b]]])

\* word_nom of _order_nominations: [[NoMatch()]] * len(option.words) repeats
\* one list object, so every extend reaches every slot
WordNom(toks, emitted, t, o) ==
    LET ws == OptionWordsOf(toks, t, o)
        shared == <<NoMatch>> \o Flatten([k \in DOMAIN ws |-> Bucket(toks, emitted, ws[k])])
    IN  [k \in DOMAIN ws |-> shared]

\* the tuples an option adds to token_nom: the product without the all-NoMatch tuple
OptionTuples(toks, emitted, t, o) ==
    SelectSeq(Product(WordNom(toks, emitted, t, o)),
              LAMBDA p : ~(\A k \in DOMAIN p : p[k] = NoMatch))

Interpretation(token, nominations) == [token |-> token, nominations |-> nominations]

\* Parser._order_nominations: one Interpretation per token, in order
OrderNominations(toks, emitted) ==
    [t \in DOMAIN toks |->
        Interpretation(t,
            Flatten([o \in DOMAIN toks[t].options.v |-> OptionTuples(toks, emitted, t, o)]))]

\* Parser.nominate, on tokens whose options have been read
NominateOf(rules, toks) == OrderNominations(toks, Emitted(rules, toks))

\* ------------------------------------------------------ parser: the rules
\* a float given as a rational, in fixed point
Fix(r) == (r.n * Scale) \div r.d

\* floor of the square root
RECURSIVE SqrtBetween(_, _, _)
SqrtBetween(n, lo, hi) ==
    IF lo >= hi THEN lo
    ELSE LET mid == (lo + hi + 1) \div 2
         IN  IF mid * mid <= n THEN SqrtBetween(n, mid, hi) ELSE SqrtBetween(n, lo, mid - 1)

ISqrt(n) == SqrtBetween(n, 0, n)

Max(a, b) == IF a >= b THEN a ELSE b

\* SausageRule.evaluate
SausageEvaluate(words) ==
    LET like == WordMatcher(Txt_aimer, TRUE)
        sausage == WordMatcher(Txt_saucisse, TRUE)
        likes == {i \in DOMAIN words : RichCompareEq(like, words[i])}
        sausages == {i \in DOMAIN words : RichCompareEq(sausage, words[i])}
    IN  IF Cardinality(likes) > 1 \/ Cardinality(sausages) > 1 THEN EvalNone
        ELSE IF likes = {} \/ sausages = {} THEN EvalNone
        ELSE LET diff == (CHOOSE i \in sausages : TRUE) - (CHOOSE i \in likes : TRUE)
             IN  IF diff < 0 THEN EvalNone
                 ELSE IF 1 <= diff /\ diff <= 2 THEN EvalFloat(0)
                 ELSE IF diff = 3 THEN EvalFloat(Scale \div 4)
                 ELSE IF diff = 4 THEN EvalFloat(Scale \div 2)
                 ELSE EvalFloat(Scale)

\* MaximizeMatch.evaluate (a selection holds an entry for every token or more)
MaximizeMatchEvaluate(words) ==
    LET matching == Cardinality({i \in DOMAIN words : words[i].kind # "NoMatch"})
    IN  EvalFloat(Scale - (matching * Scale) \div Len(words))

\* MaximizeSimilarity.evaluate
MaximizeSimilarityEvaluate(toks, words) ==
    LET noms == SelectSeq(words, LAMBDA w : w.kind = "Nomination")
        miss == [k \in DOMAIN noms |->
                    Scale - Fix(toks[noms[k].word.tok].options.v[noms[k].word.opt].score)]
    IN  IF Len(noms) = 0 THEN EvalNone
        ELSE EvalFloat(SumSeq(miss) \div Len(noms))

\* rule.evaluate(words)
Evaluate(rule, toks, words) ==
    IF rule.kind = "SausageRule" THEN SausageEvaluate(words)
    ELSE IF rule.kind = "MaximizeMatch" THEN MaximizeMatchEvaluate(words)
    ELSE IF rule.kind = "MaximizeSimilarity" THEN MaximizeSimilarityEvaluate(toks, words)
    ELSE rule.result

\* self.weights.rule_miss_penalty
MissPenalty(w) ==
    IF "rule_miss_penalty" \in DOMAIN w
    THEN [kind |-> "float", v |-> Fix(w.rule_miss_penalty)]
    ELSE [kind |-> "AttributeError"]

\* Parser.score: nones are the rules (places in the dict) whose evaluate gave None
ParserScore(rules, w, toks, words) ==
    LET ev == [r \in DOMAIN rules |-> Evaluate(rules[r].rule, toks, words)]
        nones == {r \in DOMAIN rules : ev[r].none}
    IN  IF nones # {} /\ MissPenalty(w).kind # "float"
        THEN [kind |-> MissPenalty(w).kind, nones |-> nones]
        ELSE LET total == [r \in DOMAIN rules |->
                              ((IF ev[r].none THEN MissPenalty(w).v ELSE ev[r].v)
                                * rules[r].weight) \div Scale]
             IN  [kind |-> "float", nones |-> nones,
                  v |-> ISqrt(SumSeq([r \in DOMAIN rules |-> total[r] * total[r]]))]

\* ------------------------------------------------------- parser: optimizer
\* _Optimizer.bounds, in 1 / XUnit
Bounds(ints) == [i \in DOMAIN ints |-> <<-1, (Len(ints[i].nominations) + 1) * XUnit>>]

\* int(v) of a float: towards zero
TruncInt(v) == IF v >= 0 THEN (v \div XUnit) * XUnit ELSE -(((-v) \div XUnit) * XUnit)

\* a selection value that keeps only the first entry of the chosen tuple
SelectionValFirstEntry(ints, i, pos0) ==
    LET pos == IF pos0 < 0 THEN 0 ELSE pos0
    IN  IF pos >= Len(ints[i].nominations) * XUnit
        THEN <<NoMatch>>
        ELSE <<ints[i].nominations[(TruncInt(pos) \div XUnit) + 1][1]>>

\* a selection value that gives up one tuple too early
SelectionValEarlyNoMatch(ints, i, pos0) ==
    LET pos == IF pos0 < 0 THEN 0 ELSE pos0
    IN  IF pos >= (Len(ints[i].nominations) - 1) * XUnit
        THEN <<NoMatch>>
        ELSE ints[i].nominations[(TruncInt(pos) \div XUnit) + 1]

\* val of _get_selection for coordinate pos of interpretation i
SelectionVal(ints, i, pos0) ==
    LET pos == IF pos0 < 0 THEN 0 ELSE pos0
    IN  IF pos >= Len(ints[i].nominations) * XUnit
        THEN <<NoMatch>>
        ELSE ints[i].nominations[(TruncInt(pos) \div XUnit) + 1]

\* a selection that appends the values of the last interpretation first
GetSelectionReversed(ints, x) ==
    Flatten([i \in DOMAIN x |->
                SelectionVal(ints, Len(x) + 1 - i, x[Len(x) + 1 - i])])

\* _Optimizer._get_selection
GetSelection(ints, x) == Flatten([i \in DOMAIN x |-> SelectionVal(ints, i, x[i])])

\* an extra that measures every coordinate from the integer below it
ExtraOfFloor(x) ==
    LET below(v) == IF v >= 0 THEN (v \div XUnit) * XUnit
                    ELSE -(((-v + XUnit - 1) \div XUnit) * XUnit)
        frac == [i \in DOMAIN x |-> (x[i] - below(x[i])) * (Scale \div XUnit)]
    IN  ISqrt(SumSeq([i \in DOMAIN x |-> frac[i] * frac[i]]))

\* an extra that adds the fractional parts up without squaring them
ExtraSigned(x) ==
    SumSeq([i \in DOMAIN x |-> (x[i] - TruncInt(x[i])) * (Scale \div XUnit)])

\* extra of _Optimizer.score, in fixed point
Extra(x) ==
    LET frac == [i \in DOMAIN x |-> (x[i] - TruncInt(x[i])) * (Scale \div XUnit)]
    IN  ISqrt(SumSeq([i \in DOMAIN x |-> frac[i] * frac[i]]))

\* _Optimizer.score
OptimizerScore(rules, w, toks, ints, x) ==
    LET sc == ParserScore(rules, w, toks, GetSelection(ints, x))
    IN  IF sc.kind = "float" THEN [sc EXCEPT !.v = sc.v + Extra(x)] ELSE sc

\* the coordinates tried for an interpretation with n tuples: both bounds, the
\* integers between them and the points half way between two integers
Coords(n) ==
    {-1} \cup {k * XUnit : k \in 0..(n + 1)} \cup {k * XUnit + XUnit \div 2 : k \in 0..n}

Grid(ints) ==
    {x \in [DOMAIN ints -> UNION {Coords(Len(ints[i].nominations)) : i \in DOMAIN ints}] :
        \A i \in DOMAIN ints : x[i] \in Coords(Len(ints[i].nominations))}

LowerCorner(ints) == [i \in DOMAIN ints |-> Bounds(ints)[i][1]]
UpperCorner(ints) == [i \in DOMAIN ints |-> Bounds(ints)[i][2]]

\* max_score of _Optimizer.optimize
MaxScore(rules) == ISqrt(SumSeq([r \in DOMAIN rules |-> rules[r].weight * rules[r].weight]))

Match(score, matched) == [kind |-> "Match", score |-> score, matched |-> matched]

\* a failure Match without entries
FailureMatchEmpty(ints) == Match(0, <<>>)

\* the Match of _Optimizer.optimize when the minimizer reports no success
FailureMatch(ints) == Match(0, [i \in DOMAIN ints |-> NoMatch])

\* max([0, (max_score - score) / max_score])
NormalizedScore(maxScore, fun) == Max(0, ((maxScore - fun) * Scale) \div maxScore)

\* --------------------------------------------------------- parser: parse
Texts == SeqsUpTo(Vocabulary, MaxTokens) \ {<<>>}

ParIdle ==
    /\ text = <<>> /\ ruleArgs = <<>> /\ prules = <<>> /\ pweights = DefaultWeights
    /\ pc = "idle" /\ tokens = <<>> /\ interps = <<>>
    /\ shgo = Unset /\ scored = Unset /\ selection = Unset /\ match = Unset
    /\ error = "none"

\* a Parser built on Lexer(fr_FR) with some rules and weights, and a text to parse
ParInit ==
    /\ text \in Texts
    /\ ruleArgs \in RuleSets
    /\ prules = RulesDict(ruleArgs)
    /\ pweights \in WeightsSet
    /\ pc = "start" /\ tokens = <<>> /\ interps = <<>>
    /\ shgo = Unset /\ scored = Unset /\ selection = Unset /\ match = Unset
    /\ error = "none"

\* Parser.parse, first step: tokens = self.lexer.process(text)
Process ==
    /\ pc = "start"
    /\ tokens' = Tokenize(text)
    /\ pc' = "lexed"
    /\ UNCHANGED <<text, ruleArgs, prules, pweights, interps, shgo, scored,
                   selection, match, error>>
    /\ ParOnly

\* Parser.nominate(tokens); reading token.options computes them with the
\* lexer's weights (the default ones of Lexer(fr_FR))
Nominate ==
    /\ pc = "lexed"
    /\ tokens' = [t \in DOMAIN tokens |-> WithOptions(tokens[t], DefaultWeights)]
    /\ interps' = NominateOf(prules, tokens')
    /\ pc' = "nominated"
    /\ UNCHANGED <<text, ruleArgs, prules, pweights, shgo, scored, selection,
                   match, error>>
    /\ ParOnly

\* shgo calls func=self.score at a point x of the bounds; what the call raises
\* leaves shgo, optimize and parse.  One call is followed: the one that
\* raises, or the one whose point shgo reports.
ShgoSample ==
    /\ pc = "nominated"
    /\ \E x \in Grid(interps) :
          LET r == OptimizerScore(prules, pweights, tokens, interps, x)
          IN  /\ selection' = PyList(GetSelection(interps, x))
              /\ scored' = r
              /\ IF r.kind = "float"
                 THEN /\ shgo' = [kind |-> "point", x |-> x, fun |-> r.v]
                      /\ pc' = "sampled"
                      /\ error' = error
                 ELSE /\ shgo' = shgo
                      /\ pc' = "raised"
                      /\ error' = r.kind
    /\ UNCHANGED <<text, ruleArgs, prules, pweights, tokens, interps, match>>
    /\ ParOnly

\* the objective at the corners of the bounds, which shgo always samples
CornerScores(rules, w, toks, ints) ==
    {OptimizerScore(rules, w, toks, ints, LowerCorner(ints)),
     OptimizerScore(rules, w, toks, ints, UpperCorner(ints))}

\* shgo returns (it has called func at both corners of the bounds at least)
\* and optimize makes the Match; the point of a successful result is no worse
\* than the points shgo sampled
ShgoReturn ==
    /\ pc = "sampled"
    /\ \A c \in CornerScores(prules, pweights, tokens, interps) : c.kind = "float"
    /\ \E success \in BOOLEAN :
          /\ shgo' = [kind |-> "OptimizeResult", x |-> shgo.x, fun |-> shgo.fun,
                      success |-> success]
          /\ success =>
                \A c \in CornerScores(prules, pweights, tokens, interps) : shgo.fun <= c.v
          /\ IF ~success
             THEN /\ match' = FailureMatch(interps)
                  /\ pc' = "done"
                  /\ UNCHANGED <<selection, error>>
             ELSE IF MaxScore(prules) = 0
             THEN /\ pc' = "raised"
                  /\ error' = "ZeroDivisionError"
                  /\ UNCHANGED <<selection, match>>
             ELSE /\ match' = Match(NormalizedScore(MaxScore(prules), shgo.fun),
                                    GetSelection(interps, shgo.x))
                  /\ selection' = PyList(GetSelection(interps, shgo.x))
                  /\ pc' = "done"
                  /\ error' = error
    /\ UNCHANGED <<text, ruleArgs, prules, pweights, tokens, interps, scored>>
    /\ ParOnly

\* ---------------------------------------------------------- specifications
Init == ParInit /\ TriIdle /\ LocIdle /\ WmIdle /\ LexIdle /\ ExtIdle
Next == Process \/ Nominate \/ ShgoSample \/ ShgoReturn
Spec == Init /\ [][Next]_vars

TriInit ==
    /\ ta \in TriStrings /\ tb \in TriStrings /\ tsim = Unset /\ trev = Unset
    /\ ttri = Unset
    /\ LocIdle /\ WmIdle /\ LexIdle /\ ParIdle /\ ExtIdle
TriNext == ModAB \/ ModBA \/ MakeTrigrams
SpecTrigram == TriInit /\ [][TriNext]_vars

LocInit ==
    /\ lstr \in LocaleStrings /\ lres = Unset
    /\ TriIdle /\ WmIdle /\ LexIdle /\ ParIdle /\ ExtIdle
LocNext == LocaleParse
SpecLocale == LocInit /\ [][LocNext]_vars

WmInit ==
    /\ wm \in WmMatchers /\ wx \in WmValues /\ pyorder \in {"el_first", "item_first"}
    /\ weq = Unset /\ win = Unset
    /\ TriIdle /\ LocIdle /\ LexIdle /\ ParIdle /\ ExtIdle
WmNext == MatcherEq \/ MatcherIn
SpecMatcher == WmInit /\ [][WmNext]_vars

LexInit ==
    /\ lweights \in LexWeightsSet
    /\ hsSuggest \in DistinctSeqs(SugPool, MaxSugs)
    /\ hsStem \in DistinctSeqs(StemPool, MaxStems)
    /\ tok \in {NewToken(w) : w \in LexWords}
    /\ lread = Unset
    /\ hsLog = <<>> /\ nexplore = 0
    /\ TriIdle /\ LocIdle /\ WmIdle /\ ParIdle /\ ExtIdle
LexNext == LexExplore \/ LexReadOptions
SpecLexer == LexInit /\ [][LexNext]_vars

NormInit ==
    /\ ntext \in NormTexts /\ nonce = Unset /\ ntwice = Unset
    /\ TriIdle /\ LocIdle /\ WmIdle /\ LexIdle /\ ParIdle /\ ThrIdle /\ BkIdle
NormNext == NormalizeOnce \/ NormalizeAgain
SpecNormalize == NormInit /\ [][NormNext]_vars

ThrInit ==
    ThrIdle /\ TriIdle /\ LocIdle /\ WmIdle /\ LexIdle /\ ParIdle /\ NormIdle /\ BkIdle
ThrNext == OptCheck \/ OptMake \/ OptStore \/ OptReturn
SpecOptions == ThrInit /\ [][ThrNext]_vars

\* ------------------------------------------ lexers and the backend handle
\* the texts given to normalize and tokenize
BkTexts == {<<"a">>, <<"!">>, <<"a", " ", "!">>, <<"a", " ", "a">>}

\* Lexer.hunspell: the lexer's own _hunspell, made when the lexer has none
HunspellOf(st, l) ==
    IF st.lex[l]._hunspell = None
    THEN [st EXCEPT !.lex[l]._hunspell = [kind |-> "Hunspell2", id |-> st.made + 1],
                    !.made = st.made + 1]
    ELSE st

\* token.explore() for a token of lexer l: nothing is asked for a token that
\* is not a word, suggest and stem are asked of self.lexer.hunspell otherwise
BkExploreToken(st, t) ==
    IF ~IsWord(t.word) THEN st
    ELSE [HunspellOf(HunspellOf(st, t.lexer), t.lexer) EXCEPT !.ops = st.ops + 2]

\* Lexer.explore: for token in tokens: token.explore()
RECURSIVE BkExploreAll(_, _)
BkExploreAll(st, toks) ==
    IF toks = <<>> THEN st
    ELSE BkExploreAll(BkExploreToken(st, Head(toks)), Tail(toks))

BkState == [lex |-> blex, made |-> bmade, ops |-> bops]

\* Lexer(lang)
BkNewLexer ==
    /\ Len(blex) < MaxLexers
    /\ blex' = Append(blex, [_hunspell |-> None])
    /\ UNCHANGED <<bmade, bops, btoks, bnorm, bcalls>>
    /\ BkOnly

\* lexer.normalize(text)
BkNormalize ==
    /\ bcalls < MaxCalls
    /\ \E l \in DOMAIN blex, txt \in BkTexts : bnorm' = PyStr(Normalize(txt))
    /\ bcalls' = bcalls + 1
    /\ UNCHANGED <<blex, bmade, bops, btoks>>
    /\ BkOnly

\* lexer.tokenize(text, explore)
BkTokenize ==
    /\ bcalls < MaxCalls
    /\ \E l \in DOMAIN blex, txt \in BkTexts, explore \in BOOLEAN :
          LET words == Split(txt)
              out == [i \in DOMAIN words |->
                         [lexer |-> l, word |-> words[i], explored |-> explore]]
              st == IF explore THEN BkExploreAll(BkState, out) ELSE BkState
          IN  /\ btoks' = out
              /\ blex' = st.lex /\ bmade' = st.made /\ bops' = st.ops
    /\ bcalls' = bcalls + 1
    /\ UNCHANGED bnorm
    /\ BkOnly

\* lexer.explore(tokens), on the tokens the last tokenize returned
BkExplore ==
    /\ bcalls < MaxCalls
    /\ btoks # <<>>
    /\ \E l \in DOMAIN blex :
          LET st == BkExploreAll(BkState, btoks)
          IN  /\ btoks' = [i \in DOMAIN btoks |-> [btoks[i] EXCEPT !.explored = TRUE]]
              /\ blex' = st.lex /\ bmade' = st.made /\ bops' = st.ops
    /\ bcalls' = bcalls + 1
    /\ UNCHANGED bnorm
    /\ BkOnly

BkInit == BkIdle /\ TriIdle /\ LocIdle /\ WmIdle /\ LexIdle /\ ParIdle /\ NormIdle /\ ThrIdle
BkNext == BkNewLexer \/ BkNormalize \/ BkTokenize \/ BkExplore
SpecBackend == BkInit /\ [][BkNext]_vars

\* ------------------------------------------------------------------ claims
\* the ways to cut a sequence of length len into n consecutive non-empty blocks
\* of at most w entries each, as the sequence of the blocks' lengths
Cuts(n, w, len) == {c \in [1..n -> 1..w] : SumSeq(c) = len}

\* block i of sequence s cut by c
BlockOf(s, c, i) ==
    LET before == SumSeq(SubSeq(c, 1, i - 1))
    IN  SubSeq(s, before + 1, before + c[i])

\* the most words an option of these tokens has
MostWords(toks) ==
    LET lens == UNION {{Len(toks[t].options.v[o].words) : o \in DOMAIN toks[t].options.v} :
                          t \in DOMAIN toks}
    IN  CHOOSE m \in lens : \A l \in lens : l <= m

\* b is what token t may contribute to a selection: one NoMatch, or one of the
\* tuples of its interpretation, with one entry per word of an option of t and
\* every Nomination on a word of that option
Contribution(toks, ints, t, b) ==
    \/ b = <<NoMatch>>
    \/ /\ \E k \in DOMAIN ints[t].nominations : ints[t].nominations[k] = b
       /\ \E o \in DOMAIN toks[t].options.v :
             /\ Len(b) = Len(toks[t].options.v[o].words)
             /\ \A k \in DOMAIN b :
                   b[k].kind = "Nomination" => b[k].word.tok = t /\ b[k].word.opt = o

\* C1 (as claimed): parse always returns a Match whose score is within [0, 1];
\* it never raises, whatever the rules return and whatever their weights
CE_C1 ==
    pc \in {"done", "raised"} =>
        /\ pc = "done"
        /\ match.kind = "Match"
        /\ 0 <= match.score /\ match.score <= Scale

\* C2 (as claimed): when a rule's evaluate returns None, Parser.score does not
\* fail: the weights hold a strictly positive rule_miss_penalty, also the default
\* Weights, and the score is the root of the sum of (s * weight)^2 with that
\* penalty as s
CE_C2 ==
    (scored # Unset /\ scored.nones # {}) =>
        /\ scored.kind = "float"
        /\ "rule_miss_penalty" \in DOMAIN pweights
        /\ Fix(pweights.rule_miss_penalty) > 0
        /\ LET s == [r \in DOMAIN prules |->
                        IF r \in scored.nones THEN Fix(pweights.rule_miss_penalty)
                        ELSE Evaluate(prules[r].rule, tokens, selection.v).v]
               t == [r \in DOMAIN prules |-> (s[r] * prules[r].weight) \div Scale]
           IN  scored.v = ISqrt(SumSeq([r \in DOMAIN prules |-> t[r] * t[r]])) + Extra(shgo.x)

\* C3 (as claimed): every selection the optimizer builds has exactly one
\* WordMatch per input token, entry i belonging to token i
CE_C3 ==
    selection # Unset =>
        /\ Len(selection.v) = Len(tokens)
        /\ \A i \in DOMAIN selection.v :
              selection.v[i].kind = "Nomination" => selection.v[i].word.tok = i

\* C3 (amended): every selection the optimizer builds holds, in token order, one
\* block per input token; the block of token i is a single NoMatch or one tuple
\* of interpretations[i].nominations, with one entry per word of one option of
\* token i and Nominations of that option only; so the selection has one entry
\* per token exactly when every block has one entry
Thm_C3 ==
    selection # Unset =>
        \E c \in Cuts(Len(tokens), MostWords(tokens), Len(selection.v)) :
            /\ \A t \in DOMAIN tokens :
                  Contribution(tokens, interps, t, BlockOf(selection.v, c, t))
            /\ (Len(selection.v) = Len(tokens)) <=> (\A t \in DOMAIN tokens : c[t] = 1)

\* C3: a selection with a two-entry block has been passed to the rules and
\* returned in a Match
Wit_C3 ==
    /\ pc = "done"
    /\ selection # Unset
    /\ Len(selection.v) > Len(tokens)
    /\ match.matched = selection.v

\* C4: a returned Match has at least one entry per input token; the entries
\* are the contributions of the interpretations in order; and a token whose
\* interpretation has no nominations contributes exactly one NoMatch
Thm_C4 ==
    pc = "done" =>
        /\ Len(match.matched) >= Len(tokens)
        /\ \E c \in Cuts(Len(interps), MostWords(tokens), Len(match.matched)) :
              \A t \in DOMAIN interps :
                  LET b == BlockOf(match.matched, c, t)
                  IN  /\ Contribution(tokens, interps, t, b)
                      /\ interps[t].nominations = <<>> => b = <<NoMatch>>
        /\ \A p, q \in DOMAIN match.matched :
              (/\ p < q
               /\ match.matched[p].kind = "Nomination"
               /\ match.matched[q].kind = "Nomination")
              => match.matched[p].word.tok <= match.matched[q].word.tok

\* C4: a Match with more entries than tokens, holding a nomination, for an
\* input with a token that has no nominations
Wit_C4 ==
    /\ pc = "done"
    /\ Len(match.matched) > Len(tokens)
    /\ \E t \in DOMAIN interps : interps[t].nominations = <<>>
    /\ \E p \in DOMAIN match.matched : match.matched[p].kind = "Nomination"

\* the nominations the rules emitted for option word w itself
C5Own(toks, rules, w) == SelectSeq(Emitted(rules, toks), LAMBDA n : n.word = w)

\* the tuples C5 expects of option o of token t
C5Expected(toks, rules, t, o) ==
    LET ws == OptionWordsOf(toks, t, o)
        slots == [k \in DOMAIN ws |-> <<NoMatch>> \o C5Own(toks, rules, ws[k])]
    IN  {p \in Range(Product(slots)) : ~(\A k \in DOMAIN p : p[k] = NoMatch)}

\* C5 (as claimed): the tuples of a token's Interpretation are exactly, over
\* its options, the product over the word positions of NoMatch plus the
\* nominations emitted for that word, without the all-NoMatch tuple; a
\* Nomination at slot i is on option.words[i]
CE_C5 ==
    pc \in {"nominated", "sampled", "done", "raised"} =>
        \A t \in DOMAIN interps :
            /\ Range(interps[t].nominations) =
                  UNION {C5Expected(tokens, prules, t, o) : o \in DOMAIN tokens[t].options.v}
            /\ \A k \in DOMAIN interps[t].nominations :
                  \A i \in DOMAIN interps[t].nominations[k] :
                      interps[t].nominations[k][i].kind = "Nomination"
                      => interps[t].nominations[k][i].word.idx = i

\* C6: nominate returns one Interpretation per token, in input order, and every
\* Nomination inside interpretations[i] is on a word of an option of tokens[i]
Thm_C6 ==
    pc \in {"nominated", "sampled", "done", "raised"} =>
        /\ Len(interps) = Len(tokens)
        /\ \A i \in DOMAIN interps :
              /\ interps[i].token = i
              /\ \A k \in DOMAIN interps[i].nominations :
                    \A j \in DOMAIN interps[i].nominations[k] :
                        interps[i].nominations[k][j].kind = "Nomination"
                        => interps[i].nominations[k][j].word.tok = i

\* C6: two tokens with the same surface have both been nominated
Wit_C6 ==
    /\ pc = "nominated"
    /\ \E i, j \in DOMAIN interps :
          /\ i # j
          /\ tokens[i].word = tokens[j].word
          /\ interps[i].nominations # <<>>
          /\ interps[j].nominations # <<>>

\* where option o was put in the chain verbatim, stems, neighbors
C7Rank(t, o) ==
    LET stems == IF t.stems = None THEN <<>> ELSE t.stems.v
        nbs == IF t.neighbors = None THEN <<>> ELSE t.neighbors.v
    IN  IF o.type = "verbatim" THEN 0
        ELSE IF o.type = "stem"
        THEN CHOOSE k \in DOMAIN stems : <<stems[k]>> = o.words
        ELSE Len(stems) + (CHOOSE k \in DOMAIN nbs :
                              nbs[k].words = o.words /\ nbs[k].sim = o.score)

\* C7: the options read from a token hold the verbatim option, are sorted by
\* score descending, and options of equal score are in insertion order
\* (verbatim, stems in order, neighbors in order)
Thm_C7 ==
    lread # Unset =>
        /\ \E k \in DOMAIN lread.v :
              lread.v[k].type = "verbatim" /\ lread.v[k].words = <<tok.word>>
        /\ \A i, j \in DOMAIN lread.v :
              i < j =>
                  /\ RatLeq(lread.v[j].score, lread.v[i].score)
                  /\ RatEq(lread.v[i].score, lread.v[j].score)
                     => C7Rank(tok, lread.v[i]) < C7Rank(tok, lread.v[j])

\* C7: options of the three types have been read, two of them with equal
\* scores, and the verbatim option is not the first
Wit_C7 ==
    /\ lread # Unset
    /\ {lread.v[k].type : k \in DOMAIN lread.v} = OptionTypes
    /\ \E i, j \in DOMAIN lread.v :
          i < j /\ RatEq(lread.v[i].score, lread.v[j].score)
    /\ lread.v[1].type # "verbatim"

\* C8: a % b is |A n B| / |A u B| of the trigram sets; it is 0 when either set
\* is empty, lies within [0, 1], is 1 for a non-empty string with itself, and
\* equals b % a
Thm_C8 ==
    LET A == Range(make_trigrams(ta))
        B == Range(make_trigrams(tb))
    IN  /\ tsim # Unset =>
              /\ tsim.d > 0 /\ 0 <= tsim.n /\ tsim.n <= tsim.d
              /\ (A = {} \/ B = {}) => tsim.n = 0
              /\ (A # {} /\ B # {}) =>
                    tsim.n * Cardinality(A \cup B) = Cardinality(A \cap B) * tsim.d
              /\ (ta = tb /\ ta # <<>>) => tsim.n = tsim.d
              /\ (ta = <<>> \/ tb = <<>>) => tsim.n = 0
        /\ (tsim # Unset /\ trev # Unset) => RatEq(tsim, trev)

\* C8: two different strings that share some trigrams, compared both ways
Wit_C8 ==
    /\ tsim # Unset /\ trev # Unset
    /\ ta # tb
    /\ 0 < tsim.n /\ tsim.n < tsim.d

\* what C9 says of matcher m and value x
C9Expected(m, x) ==
    LET w == IF x.kind = "Nomination" THEN x.word ELSE x
    IN  /\ w.kind = "OptionWord"
        /\ Lower(w.word) = m.word
        /\ (w.otype = "stem") = m.stem

\* C9: matcher == x holds iff x is an OptionWord, or a Nomination taken by its
\* word, whose lowercase surface is the matcher's text and whose option is a
\* stem exactly when the matcher asks for stems; for any other value it is
\* False; x in [matcher] gives the same answer
Thm_C9 ==
    /\ weq # Unset => weq.v = C9Expected(wm, wx)
    /\ win # Unset => win.v = C9Expected(wm, wx)

\* C9: a stem matcher has accepted a Nomination of a word with an upper-case
\* surface, by == and by in
Wit_C9 ==
    /\ weq # Unset /\ win # Unset
    /\ wm.stem
    /\ wx.kind = "Nomination"
    /\ wx.word.word # wx.word.word_lower
    /\ weq.v /\ win.v

\* the whole of s is 2-3 letters, one of - and _, 2-3 letters
C10WholeForm(s) ==
    \E l1, l2 \in 2..3 : Len(s) = l1 + 1 + l2 /\ LocaleFits(s, l1, l2)

\* C10 (as claimed): Locale.parse(s) gives a Locale only when the whole of s
\* has the form, its two parts lowercased, and it rejects every other string
CE_C10 ==
    lres # Unset =>
        IF C10WholeForm(lstr)
        THEN /\ lres.kind = "Locale"
             /\ \E l1 \in 2..3 :
                   /\ lres.lang = Lower(SubSeq(lstr, 1, l1))
                   /\ lres.region = Lower(SubSeq(lstr, l1 + 2, Len(lstr)))
        ELSE lres.kind = "ValueError"

\* C11 (as claimed): normalizing a normalized text changes nothing:
\* normalize(normalize(s)) = normalize(s) for every text s
CE_C11 ==
    (nonce # Unset /\ ntwice # Unset) => ntwice.s = nonce.s

\* the stem keywords occur in the text with aimer before saucisse
C12InOrder(txt) ==
    \E i, j \in DOMAIN txt :
        i < j /\ Txt_aimer \in Range(DictStem(txt[i])) /\ Txt_saucisse \in Range(DictStem(txt[j]))

\* C12 (as claimed): with the three rules of the fixture at weight 1.0 and a
\* miss penalty of 1.0 or more, the parse of a text that does not hold aimer
\* before saucisse returns the score 0.0
CE_C12 ==
    (/\ pc = "done"
     /\ ruleArgs = FixtureRules
     /\ "rule_miss_penalty" \in DOMAIN pweights
     /\ ~C12InOrder(text))
    => match.score = 0

\* C13: when shgo reports success = false, optimize raises nothing and returns
\* a Match of score 0.0 whose matched holds one NoMatch per interpretation,
\* hence one per input token
Thm_C13 ==
    (shgo.kind = "OptimizeResult" /\ ~shgo.success) =>
        /\ pc = "done" /\ error = "none"
        /\ match.kind = "Match" /\ match.score = 0
        /\ Len(match.matched) = Len(interps) /\ Len(interps) = Len(text)
        /\ \A i \in DOMAIN match.matched : match.matched[i] = NoMatch

\* C13: shgo has failed at a point that selects a nomination, for two tokens
Wit_C13 ==
    /\ shgo.kind = "OptimizeResult" /\ ~shgo.success
    /\ Len(text) = MaxTokens
    /\ \E k \in DOMAIN selection.v : selection.v[k].kind = "Nomination"
    /\ pc = "done"

\* the words joined by single spaces
RECURSIVE C14Join(_)
C14Join(words) ==
    IF Len(words) = 1 THEN words[1]
    ELSE words[1] \o <<" ">> \o C14Join(Tail(words))

\* C14: after explore, a token whose surface is not word-shaped has empty
\* neighbors and stems and the backend was not called; otherwise neighbors
\* holds, in suggestion order, one Neighbor per suggestion other than the
\* surface, its words the suggestion cut at every single space and its sim
\* the trigram similarity of the surface and the whole suggestion, and stems
\* is what the backend's stem answered; a second explore gives the same lists
Thm_C14 ==
    nexplore >= 1 =>
        IF ~IsWord(tok.word)
        THEN tok.neighbors = PyList(<<>>) /\ tok.stems = PyList(<<>>) /\ hsLog = <<>>
        ELSE LET kept == SelectSeq(hsSuggest, LAMBDA sug : sug # tok.word)
                 nb == tok.neighbors.v
             IN  /\ Len(nb) = Len(kept)
                 /\ \A k \in DOMAIN nb :
                       /\ Len(nb[k].words) >= 1
                       /\ C14Join(nb[k].words) = kept[k]
                       /\ \A w \in DOMAIN nb[k].words : " " \notin Range(nb[k].words[w])
                       /\ nb[k].sim = similarity(Trigram(tok.word), Trigram(kept[k]))
                 /\ tok.stems = PyList(hsStem)

\* C14: a word has been explored twice, the backend answering the surface
\* itself, a suggestion of two words and a stem
Wit_C14 ==
    /\ nexplore = 2
    /\ IsWord(tok.word)
    /\ tok.word \in Range(hsSuggest)
    /\ \E k \in DOMAIN tok.neighbors.v : Len(tok.neighbors.v[k].words) = 2
    /\ Len(tok.stems.v) >= 1

\* C15 (as claimed): over any accesses to token.options, also when two
\* threads make the first access at the same time, _make_options runs at most
\* once and every access returns the same list
CE_C15 ==
    /\ omakes <= 1
    /\ Cardinality(oreturned) <= 1

\* the sliding windows of length 3 over p, in order
C16Windows(p) == [k \in 1..(Len(p) - 2) |-> SubSeq(p, k, k + 2)]

\* C16 (as claimed): the trigrams of s are the windows of s padded with one
\* space at both ends, n windows for a string of n >= 1 characters
CE_C16 ==
    (ttri # Unset /\ Len(ta) >= 1) =>
        /\ ttri.yielded = C16Windows(<<" ">> \o ta \o <<" ">>)
        /\ ttri.trigrams = Range(C16Windows(<<" ">> \o ta \o <<" ">>))
        /\ Len(ttri.yielded) = Len(ta)

\* C16 (amended): the trigrams of a string s of n >= 1 characters are the
\* windows of s padded with two spaces in front and one behind, n + 1 windows
\* before deduplication; the empty string has no trigram
Thm_C16 ==
    ttri # Unset =>
        IF Len(ta) >= 1
        THEN /\ ttri.yielded = C16Windows(<<" ", " ">> \o ta \o <<" ">>)
             /\ ttri.trigrams = Range(C16Windows(<<" ", " ">> \o ta \o <<" ">>))
             /\ Len(ttri.yielded) = Len(ta) + 1
        ELSE ttri.yielded = <<>> /\ ttri.trigrams = {}

\* C16: the trigrams of a string of three characters with a repeated window
Wit_C16 ==
    /\ ttri # Unset
    /\ Len(ta) = 3
    /\ Cardinality(ttri.trigrams) < Len(ttri.yielded)

\* floor of the coordinate v, counted in 1/XUnit
C17Floor(v) == IF v >= 0 THEN v \div XUnit ELSE -((-v + XUnit - 1) \div XUnit)

\* what C17 says the snap takes for interpretation i at coordinate v
C17Snap(ints, i, v) ==
    LET c == IF v < 0 THEN 0 ELSE v
        n == Len(ints[i].nominations)
    IN  IF C17Floor(c) >= n THEN <<NoMatch>>
        ELSE ints[i].nominations[C17Floor(c) + 1]

\* C17: for a point x inside the bounds [-0.1, N_i + 1] the selection is made
\* of, for every interpretation, the single NoMatch when floor(x_i) >= N_i and
\* the tuple nominations[floor(x_i)] otherwise, a coordinate below 0 counting
\* as 0; no index falls outside nominations
Thm_C17 ==
    shgo # Unset =>
        /\ \A i \in DOMAIN shgo.x :
              LET c == IF shgo.x[i] < 0 THEN 0 ELSE shgo.x[i]
              IN  /\ -1 <= shgo.x[i]
                  /\ shgo.x[i] <= (Len(interps[i].nominations) + 1) * XUnit
                  /\ C17Floor(c) < Len(interps[i].nominations)
                     => (C17Floor(c) + 1) \in DOMAIN interps[i].nominations
        /\ selection.v = Flatten([i \in DOMAIN shgo.x |-> C17Snap(interps, i, shgo.x[i])])

\* C17: a point with a coordinate below 0, one between two integers that
\* selects the last tuple, and one at the upper bound
Wit_C17 ==
    /\ shgo # Unset
    /\ \E i \in DOMAIN shgo.x : shgo.x[i] < 0 /\ interps[i].nominations # <<>>
    /\ \E i \in DOMAIN shgo.x :
          /\ shgo.x[i] % XUnit # 0 /\ shgo.x[i] > XUnit
          /\ C17Floor(shgo.x[i]) = Len(interps[i].nominations) - 1

\* rule_ensemble_score(snap(x)): Parser.score of the selection C17 describes
C18Ensemble(x) ==
    ParserScore(prules, pweights, tokens,
                Flatten([i \in DOMAIN x |-> C17Snap(interps, i, x[i])]))

\* sqrt(sum_i (x_i - whole(x_i))^2) in hundredths, whole(v) counted in units
C18Penalty(x, whole(_)) ==
    LET d == [i \in DOMAIN x |-> (x[i] - whole(x[i]) * XUnit) * (Scale \div XUnit)]
    IN  ISqrt(SumSeq([i \in DOMAIN x |-> d[i] * d[i]]))

\* v without its fractional part (rounded toward zero)
C18Trunc(v) == IF v >= 0 THEN C17Floor(v) ELSE -C17Floor(-v)

\* C18 (as claimed): the objective at x is the rule ensemble score of snap(x)
\* plus sqrt(sum_i (x_i - floor(x_i))^2), also for coordinates below 0
CE_C18 ==
    (shgo # Unset /\ scored.kind = "float") =>
        scored.v = C18Ensemble(shgo.x).v + C18Penalty(shgo.x, C17Floor)

\* C18 (amended): the objective at x is the rule ensemble score of snap(x)
\* plus sqrt(sum_i (x_i - trunc(x_i))^2), trunc rounding toward zero: for a
\* coordinate in [-0.1, 0) the term is x_i itself and not x_i + 1
Thm_C18 ==
    (shgo # Unset /\ scored.kind = "float") =>
        scored.v = C18Ensemble(shgo.x).v + C18Penalty(shgo.x, C18Trunc)

\* C18: the objective has a value at a point with a coordinate below 0 and a
\* coordinate half way between two integers
Wit_C18 ==
    /\ shgo # Unset /\ scored.kind = "float"
    /\ \E i \in DOMAIN shgo.x : shgo.x[i] < 0
    /\ \E i \in DOMAIN shgo.x : shgo.x[i] > XUnit /\ shgo.x[i] % XUnit # 0

\* x' of C19: every coordinate replaced by max(0, floor(x_i))
C19Snapped(x) ==
    [i \in DOMAIN x |-> IF C17Floor(x[i]) > 0 THEN C17Floor(x[i]) * XUnit ELSE 0]

C19Integer(x) == \A i \in DOMAIN x : x[i] % XUnit = 0

\* C19: at a point x of the bounds where the objective has a value f(x), the
\* point x' (x'_i = max(0, floor(x_i))) lies in the bounds, has integer
\* coordinates and f(x') <= f(x); the part of f(x) added to the rule ensemble
\* score is 0 exactly when every coordinate of x is an integer
Thm_C19 ==
    (shgo # Unset /\ scored.kind = "float") =>
        LET x  == shgo.x
            xs == C19Snapped(x)
            fs == OptimizerScore(prules, pweights, tokens, interps, xs)
        IN  /\ xs \in Grid(interps)
            /\ C19Integer(xs)
            /\ fs.kind = "float"
            /\ scored.v >= fs.v
            /\ (scored.v - C18Ensemble(x).v = 0) <=> C19Integer(x)

\* C19: the objective has a value at a point that is not its own snap, with
\* a coordinate below 0 and a coordinate between two indices
Wit_C19 ==
    /\ shgo # Unset /\ scored.kind = "float"
    /\ \E i \in DOMAIN shgo.x : shgo.x[i] < 0
    /\ \E i \in DOMAIN shgo.x : shgo.x[i] > 0 /\ shgo.x[i] % XUnit # 0
    /\ scored.v > OptimizerScore(prules, pweights, tokens, interps, C19Snapped(shgo.x)).v

\* C20: after any Lexer constructions and normalize / tokenize / explore
\* calls on any number of lexers, no backend handle has been made when no
\* suggest or stem has been asked, and exactly one has been made otherwise
CE_C20 == bmade = (IF bops = 0 THEN 0 ELSE 1)

\* the options of type ty in a list of options
C21OfType(opts, ty) == {k \in DOMAIN opts : opts[k].type = ty}

\* C21: once explore has completed on a token, whatever reads of
\* token.options came before, the value token.options returns holds exactly
\* one verbatim option, one stem option per entry of token.stems and one
\* neighbor option per entry of token.neighbors
CE_C21 ==
    (tok.stems # None /\ tok.neighbors # None) =>
        LET opts == WithOptions(tok, lweights).options.v
        IN  /\ Cardinality(C21OfType(opts, "verbatim")) = 1
            /\ Cardinality(C21OfType(opts, "stem")) = Len(tok.stems.v)
            /\ Cardinality(C21OfType(opts, "neighbor")) = Len(tok.neighbors.v)
            /\ Len(opts) = 1 + Len(tok.stems.v) + Len(tok.neighbors.v)

\* C22: every RuleInfo given to the Parser constructor takes part once in
\* nomination, in the rule ensemble score and in max_score, also when two of
\* them share a name: the interpretations are those all the given rules
\* nominate, the objective is the one all the given rules evaluate, and
\* max_score is taken over all their weights
CE_C22 ==
    /\ pc \in {"nominated", "sampled", "done"} =>
          interps = NominateOf(ruleArgs, tokens)
    /\ (shgo # Unset /\ scored.kind = "float") =>
          scored = OptimizerScore(ruleArgs, pweights, tokens, interps, shgo.x)
    /\ pc = "done" => MaxScore(prules) = MaxScore(ruleArgs)

====
